---- MODULE Spec2Model ----
(***************************************************************************)
(* Usage accounting of the TUI sidebar (package sidebar).                  *)
(*                                                                         *)
(* The repository carries two revisions of the usage ledger:               *)
(*   - src/pkg/tui/components/sidebar/sidebar.go : self usage is stored    *)
(*     only when the event carries SelfUsage; the root row shows the       *)
(*     exclusive usage (rootInclusive minus the children's self usage);    *)
(*     the team total is rootInclusive plus the active child.              *)
(*   - src/unnamed/part_001 : legacy fallback on event.Usage, a second     *)
(*     per-session map of inclusive snapshots, the team total is the sum   *)
(*     of the stored self usages.                                          *)
(* Definitions that exist in both revisions carry the suffix _sidebar for  *)
(* sidebar.go and the plain name for part_001.  The variable revision      *)
(* says which file the running program was built from.  The oldest         *)
(* revision, src/unnamed/part_000, is sidebar.go without the agent-name    *)
(* map and without the breakdown; its ledger and team total are those of   *)
(* sidebar.go.                                                             *)
(*                                                                         *)
(* Strings are sequences of bytes, so that sort.Strings orders them as Go  *)
(* does.  A *runtime.Usage is a record or Nil.  Cost is a decimal amount   *)
(* counted exactly, in hundredths of a dollar.  A Go map is a function on  *)
(* the set of its keys; the order in which `range` visits the keys is an   *)
(* explicit argument of every operator that ranges over a map.             *)
(***************************************************************************)
EXTENDS Integers, Sequences, FiniteSets, TLC

\* lastSessionID and lastAgentName are history variables: the session ID of
\* the most recent event that carried one ("" if there has been none), and,
\* for each session ID, the agent name of the most recent event that carried
\* that session ID together with an agent name.
VARIABLES usageState, revision, nEvents, lastSessionID, lastAgentName

vars == <<usageState, revision, nEvents, lastSessionID, lastAgentName>>

\* ------------------------------------------------------------------ bounds
\* Number of events delivered to the sidebar in one run.
MaxEvents == 4

\* ------------------------------------------------------------- value sets
Nil == [nil |-> TRUE]

EmptyString == <<>>

\* "s10", "s2": their byte order is the reverse of their numeric order.
SessionIDs == { <<115, 49, 48>>, <<115, 50>> }

\* "root", "worker"
AgentNames == { <<114, 111, 111, 116>>, <<119, 111, 114, 107, 101, 114>> }

\* the literal "Root" of rootSessionBlock
RootLiteral == <<82, 111, 111, 116>>

Usage(in, out, len, lim, cost) ==
    [InputTokens |-> in, OutputTokens |-> out, ContextLength |-> len,
     ContextLimit |-> lim, Cost |-> cost]

\* &runtime.Usage{}
ZeroUsage == Usage(0, 0, 0, 0, 0)

\* Snapshots carried by events.
UsageSamples ==
    { Usage(200, 100, 350, 8000, 60),
      Usage(1000, 500, 1500, 4000, 100) }

OptUsage == UsageSamples \cup {Nil}

Revisions == {"sidebar.go", "part_001"}

\* *runtime.TokenUsageEvent; Nil is the nil event.
Events ==
    [SessionID : SessionIDs \cup {EmptyString},
     AgentName : AgentNames \cup {EmptyString},
     SelfUsage : OptUsage,
     InclusiveUsage : OptUsage,
     Usage : OptUsage] \cup {Nil}

\* ------------------------------------------------------------ map helpers
MapGet(m, k) == IF k \in DOMAIN m THEN m[k] ELSE Nil

MapGetString(m, k) == IF k \in DOMAIN m THEN m[k] ELSE EmptyString

MapSet(m, k, v) == [x \in DOMAIN m \cup {k} |-> IF x = k THEN v ELSE m[x]]

\* every order in which `range m` can visit the keys of m
RangeOrders(m) ==
    { o \in [1 .. Cardinality(DOMAIN m) -> DOMAIN m] :
        \A i, j \in 1 .. Cardinality(DOMAIN m) : i # j => o[i] # o[j] }

\* ------------------------------------------------------------ strings
RECURSIVE StringLess(_, _)
StringLess(a, b) ==
    IF Len(a) = 0 THEN Len(b) > 0
    ELSE IF Len(b) = 0 THEN FALSE
    ELSE IF Head(a) = Head(b) THEN StringLess(Tail(a), Tail(b))
    ELSE Head(a) < Head(b)

RECURSIVE InsertSorted(_, _)
InsertSorted(x, s) ==
    IF Len(s) = 0 THEN <<x>>
    ELSE IF StringLess(Head(s), x) THEN <<Head(s)>> \o InsertSorted(x, Tail(s))
    ELSE <<x>> \o s

\* Faulty variant of sortStrings: the slice is left in the order it was gathered.
sortStrings_unsorted(ids) == ids

RECURSIVE sortStrings(_)
sortStrings(ids) ==
    IF Len(ids) = 0 THEN <<>>
    ELSE InsertSorted(Head(ids), sortStrings(Tail(ids)))

\* ------------------------------------------------------------ construction
New ==
    [sessions |-> <<>>,
     inclusive |-> <<>>,
     sessionAgents |-> <<>>,
     rootInclusive |-> Nil,
     rootSessionID |-> EmptyString,
     rootAgentName |-> EmptyString,
     activeSessionID |-> EmptyString]

cloneUsage(u) == IF u = Nil THEN Nil ELSE u

\* ------------------------------------------------------------ arithmetic
\* mergeUsageTotals adds delta into base (sidebar.go)
mergeUsageTotals(base, delta) ==
    IF base = Nil THEN cloneUsage(delta)
    ELSE IF delta = Nil THEN base
    ELSE [InputTokens |-> base.InputTokens + delta.InputTokens,
          OutputTokens |-> base.OutputTokens + delta.OutputTokens,
          ContextLength |-> base.ContextLength + delta.ContextLength,
          ContextLimit |->
              IF delta.ContextLimit > base.ContextLimit
              THEN delta.ContextLimit ELSE base.ContextLimit,
          Cost |-> base.Cost + delta.Cost]

\* Faulty variant of subtractUsage: the three clamps are missing.
subtractUsage_unclamped(base, delta) ==
    IF base = Nil \/ delta = Nil THEN base
    ELSE [InputTokens |-> base.InputTokens - delta.InputTokens,
          OutputTokens |-> base.OutputTokens - delta.OutputTokens,
          ContextLength |->
              (base.InputTokens - delta.InputTokens)
              + (base.OutputTokens - delta.OutputTokens),
          ContextLimit |-> base.ContextLimit,
          Cost |-> base.Cost - delta.Cost]

\* Faulty variant of subtractUsage: ContextLength is debited like the other
\* counters instead of being recomputed.
subtractUsage_ownContextLength(base, delta) ==
    IF base = Nil \/ delta = Nil THEN base
    ELSE
    LET in == IF base.InputTokens - delta.InputTokens < 0
              THEN 0 ELSE base.InputTokens - delta.InputTokens
        out == IF base.OutputTokens - delta.OutputTokens < 0
               THEN 0 ELSE base.OutputTokens - delta.OutputTokens
        length == IF base.ContextLength - delta.ContextLength < 0
                  THEN 0 ELSE base.ContextLength - delta.ContextLength
        cost == IF base.Cost - delta.Cost < 0
                THEN 0 ELSE base.Cost - delta.Cost
    IN  [InputTokens |-> in,
         OutputTokens |-> out,
         ContextLength |-> length,
         ContextLimit |-> base.ContextLimit,
         Cost |-> cost]

\* Faulty variant of subtractUsage: ContextLimit is debited like the counters.
subtractUsage_debitLimit(base, delta) ==
    IF base = Nil \/ delta = Nil THEN base
    ELSE
    LET in == IF base.InputTokens - delta.InputTokens < 0
              THEN 0 ELSE base.InputTokens - delta.InputTokens
        out == IF base.OutputTokens - delta.OutputTokens < 0
               THEN 0 ELSE base.OutputTokens - delta.OutputTokens
        limit == IF base.ContextLimit - delta.ContextLimit < 0
                 THEN 0 ELSE base.ContextLimit - delta.ContextLimit
        cost == IF base.Cost - delta.Cost < 0
                THEN 0 ELSE base.Cost - delta.Cost
    IN  [InputTokens |-> in,
         OutputTokens |-> out,
         ContextLength |-> in + out,
         ContextLimit |-> limit,
         Cost |-> cost]

\* subtractUsage debits delta from base (sidebar.go)
subtractUsage(base, delta) ==
    IF base = Nil \/ delta = Nil THEN base
    ELSE
    LET in == IF base.InputTokens - delta.InputTokens < 0
              THEN 0 ELSE base.InputTokens - delta.InputTokens
        out == IF base.OutputTokens - delta.OutputTokens < 0
               THEN 0 ELSE base.OutputTokens - delta.OutputTokens
        cost == IF base.Cost - delta.Cost < 0
                THEN 0 ELSE base.Cost - delta.Cost
    IN  [InputTokens |-> in,
         OutputTokens |-> out,
         ContextLength |-> in + out,
         ContextLimit |-> base.ContextLimit,
         Cost |-> cost]

\* the loop of aggregateSelfUsage: order is the order `range usages` visits
RECURSIVE accumulateUsage(_, _, _)
accumulateUsage(total, usages, order) ==
    IF Len(order) = 0 THEN total
    ELSE
    LET usage == usages[Head(order)]
    IN  accumulateUsage(
            IF usage = Nil THEN total
            ELSE [InputTokens |-> total.InputTokens + usage.InputTokens,
                  OutputTokens |-> total.OutputTokens + usage.OutputTokens,
                  ContextLength |-> total.ContextLength + usage.ContextLength,
                  ContextLimit |->
                      IF usage.ContextLimit > total.ContextLimit
                      THEN usage.ContextLimit ELSE total.ContextLimit,
                  Cost |-> total.Cost + usage.Cost],
            usages, Tail(order))

aggregateSelfUsage(usages, order) ==
    IF Cardinality(DOMAIN usages) = 0 THEN Nil
    ELSE accumulateUsage(ZeroUsage, usages, order)

\* ------------------------------------------------------------ ingestion
\* Steps of SetTokenUsage (part_001), in the order of the code.

\* legacy fallback: event.Usage stands in for a missing SelfUsage
legacySelfUsage(event) ==
    IF (event.SelfUsage = Nil \/ event.InclusiveUsage = Nil)
       /\ event.Usage # Nil /\ event.SelfUsage = Nil
    THEN event.Usage ELSE event.SelfUsage

\* Faulty variant of legacyInclusiveUsage: event.Usage is never consulted.
legacyInclusiveUsage_noFallback(event) == event.InclusiveUsage

\* legacy fallback: event.Usage stands in for a missing InclusiveUsage
legacyInclusiveUsage(event) ==
    IF (event.SelfUsage = Nil \/ event.InclusiveUsage = Nil)
       /\ event.Usage # Nil /\ event.InclusiveUsage = Nil
    THEN event.Usage ELSE event.InclusiveUsage

\* Faulty variant of captureRootAgentName: the guard on rootAgentName == "" is
\* missing, so every named event renames the root.
captureRootAgentName_lastWins(L, event) ==
    IF event.AgentName # EmptyString
    THEN event.AgentName ELSE L.rootAgentName

\* the root agent name after the capture step
captureRootAgentName(L, event) ==
    IF event.AgentName # EmptyString /\ L.rootAgentName = EmptyString
    THEN event.AgentName ELSE L.rootAgentName

\* Faulty variant of trackActiveSession: only an event that carries self usage
\* makes its session the active one.
trackActiveSession_onlyWithUsage(L, event) ==
    IF event.SessionID # EmptyString /\ event.SelfUsage # Nil
    THEN event.SessionID ELSE L.activeSessionID

\* Faulty variant of trackActiveSession: the guard on SessionID != "" is
\* missing.
trackActiveSession_unguarded(L, event) == event.SessionID

\* the active session after the tracking step
trackActiveSession(L, event) ==
    IF event.SessionID # EmptyString
    THEN event.SessionID ELSE L.activeSessionID

\* Faulty variant of storeSessionUsage: the snapshot is added to the stored one
\* instead of replacing it.
storeSessionUsage_accumulate(L, event) ==
    LET snapshot ==
            IF cloneUsage(legacySelfUsage(event)) = Nil
            THEN cloneUsage(legacyInclusiveUsage(event))
            ELSE cloneUsage(legacySelfUsage(event))
    IN  IF event.SessionID # EmptyString /\ snapshot # Nil
        THEN MapSet(L.sessions, event.SessionID,
                    mergeUsageTotals(MapGet(L.sessions, event.SessionID), snapshot))
        ELSE L.sessions

\* Faulty variant of storeSessionUsage: no fallback to the inclusive snapshot when
\* the self snapshot is missing.
storeSessionUsage_selfOnly(L, event) ==
    IF event.SessionID # EmptyString /\ cloneUsage(legacySelfUsage(event)) # Nil
    THEN MapSet(L.sessions, event.SessionID, cloneUsage(legacySelfUsage(event)))
    ELSE L.sessions

\* Faulty variant of storeSessionUsage: a session's first snapshot is kept.
storeSessionUsage_keepFirst(L, event) ==
    LET snapshot ==
            IF cloneUsage(legacySelfUsage(event)) = Nil
            THEN cloneUsage(legacyInclusiveUsage(event))
            ELSE cloneUsage(legacySelfUsage(event))
    IN  IF event.SessionID # EmptyString /\ snapshot # Nil
           /\ event.SessionID \notin DOMAIN L.sessions
        THEN MapSet(L.sessions, event.SessionID, snapshot)
        ELSE L.sessions

\* the sessions map after the snapshot is stored
storeSessionUsage(L, event) ==
    LET snapshot ==
            IF cloneUsage(legacySelfUsage(event)) = Nil
            THEN cloneUsage(legacyInclusiveUsage(event))
            ELSE cloneUsage(legacySelfUsage(event))
    IN  IF event.SessionID # EmptyString /\ snapshot # Nil
        THEN MapSet(L.sessions, event.SessionID, snapshot)
        ELSE L.sessions

\* the inclusive map after the inclusive snapshot is stored
storeInclusiveUsage(L, event) ==
    IF event.SessionID # EmptyString /\ legacyInclusiveUsage(event) # Nil
    THEN MapSet(L.inclusive, event.SessionID,
                cloneUsage(legacyInclusiveUsage(event)))
    ELSE L.inclusive

\* the session -> agent name map after the name is recorded
mapSessionAgent(L, event) ==
    IF event.AgentName # EmptyString /\ event.SessionID # EmptyString
    THEN MapSet(L.sessionAgents, event.SessionID, event.AgentName)
    ELSE L.sessionAgents

\* Faulty variant of SetTokenUsage: the root snapshot is taken from every
\* event that carries inclusive usage, whatever its agent name.
SetTokenUsage_anyAgent(L, event) ==
    IF event = Nil THEN L
    ELSE
    LET inclusiveUsage == legacyInclusiveUsage(event)
        fromRoot == inclusiveUsage # Nil
    IN  [sessions |-> storeSessionUsage(L, event),
         inclusive |-> storeInclusiveUsage(L, event),
         sessionAgents |-> mapSessionAgent(L, event),
         rootInclusive |->
            IF fromRoot THEN cloneUsage(inclusiveUsage) ELSE L.rootInclusive,
         rootSessionID |->
            IF fromRoot /\ event.SessionID # EmptyString
            THEN event.SessionID ELSE L.rootSessionID,
         rootAgentName |-> captureRootAgentName(L, event),
         activeSessionID |-> trackActiveSession(L, event)]

\* Faulty variant of SetTokenUsage: the root session ID is taken from every
\* event of the root agent, with or without inclusive usage.
SetTokenUsage_rootIDWithoutUsage(L, event) ==
    IF event = Nil THEN L
    ELSE
    LET rootAgentName == captureRootAgentName(L, event)
        inclusiveUsage == legacyInclusiveUsage(event)
        fromRoot == event.AgentName = rootAgentName /\ inclusiveUsage # Nil
    IN  [sessions |-> storeSessionUsage(L, event),
         inclusive |-> storeInclusiveUsage(L, event),
         sessionAgents |-> mapSessionAgent(L, event),
         rootInclusive |->
            IF fromRoot THEN cloneUsage(inclusiveUsage) ELSE L.rootInclusive,
         rootSessionID |->
            IF event.AgentName = rootAgentName /\ event.SessionID # EmptyString
            THEN event.SessionID ELSE L.rootSessionID,
         rootAgentName |-> rootAgentName,
         activeSessionID |-> trackActiveSession(L, event)]

\* Faulty variant of SetTokenUsage: an event without an agent name never
\* counts as coming from the root agent.
SetTokenUsage_namedRootOnly(L, event) ==
    IF event = Nil THEN L
    ELSE
    LET rootAgentName == captureRootAgentName(L, event)
        inclusiveUsage == legacyInclusiveUsage(event)
        fromRoot == /\ event.AgentName # EmptyString
                    /\ event.AgentName = rootAgentName
                    /\ inclusiveUsage # Nil
    IN  [sessions |-> storeSessionUsage(L, event),
         inclusive |-> storeInclusiveUsage(L, event),
         sessionAgents |-> mapSessionAgent(L, event),
         rootInclusive |->
            IF fromRoot THEN cloneUsage(inclusiveUsage) ELSE L.rootInclusive,
         rootSessionID |->
            IF fromRoot /\ event.SessionID # EmptyString
            THEN event.SessionID ELSE L.rootSessionID,
         rootAgentName |-> rootAgentName,
         activeSessionID |-> trackActiveSession(L, event)]

SetTokenUsage(L, event) ==
    IF event = Nil THEN L
    ELSE
    LET rootAgentName == captureRootAgentName(L, event)
        inclusiveUsage == legacyInclusiveUsage(event)
        fromRoot == event.AgentName = rootAgentName /\ inclusiveUsage # Nil
    IN  [sessions |-> storeSessionUsage(L, event),
         inclusive |-> storeInclusiveUsage(L, event),
         sessionAgents |-> mapSessionAgent(L, event),
         rootInclusive |->
            IF fromRoot THEN cloneUsage(inclusiveUsage) ELSE L.rootInclusive,
         rootSessionID |->
            IF fromRoot /\ event.SessionID # EmptyString
            THEN event.SessionID ELSE L.rootSessionID,
         rootAgentName |-> rootAgentName,
         activeSessionID |-> trackActiveSession(L, event)]

\* sidebar.go has no inclusive map: the field stays empty.
SetTokenUsage_sidebar(L, event) ==
    IF event = Nil THEN L
    ELSE
    LET rootAgentName ==
            IF event.AgentName # EmptyString /\ L.rootAgentName = EmptyString
            THEN event.AgentName ELSE L.rootAgentName
        activeSessionID ==
            IF event.SessionID # EmptyString
            THEN event.SessionID ELSE L.activeSessionID
        sessions ==
            IF event.SelfUsage # Nil /\ event.SessionID # EmptyString
            THEN MapSet(L.sessions, event.SessionID, cloneUsage(event.SelfUsage))
            ELSE L.sessions
        sessionAgents ==
            IF event.AgentName # EmptyString /\ event.SessionID # EmptyString
            THEN MapSet(L.sessionAgents, event.SessionID, event.AgentName)
            ELSE L.sessionAgents
        fromRoot == event.AgentName = rootAgentName /\ event.InclusiveUsage # Nil
    IN  [sessions |-> sessions,
         inclusive |-> L.inclusive,
         sessionAgents |-> sessionAgents,
         rootInclusive |->
            IF fromRoot THEN cloneUsage(event.InclusiveUsage) ELSE L.rootInclusive,
         rootSessionID |->
            IF fromRoot /\ event.SessionID # EmptyString
            THEN event.SessionID ELSE L.rootSessionID,
         rootAgentName |-> rootAgentName,
         activeSessionID |-> activeSessionID]

\* ------------------------------------------------------------ team totals
\* Faulty variant of computeTeamTotals: the sum of the self usages is added to the
\* root's inclusive snapshot.
computeTeamTotals_onRootInclusive(L, order) ==
    mergeUsageTotals(cloneUsage(L.rootInclusive),
                     aggregateSelfUsage(L.sessions, order))

\* Faulty variant of computeTeamTotals: the team total of sidebar.go, the
\* root's inclusive snapshot plus the self usage of the active child.
computeTeamTotals_activeChild(L, order) ==
    LET base == cloneUsage(L.rootInclusive)
        active == IF L.activeSessionID = EmptyString THEN Nil
                  ELSE MapGet(L.sessions, L.activeSessionID)
    IN  IF base = Nil THEN cloneUsage(active)
        ELSE IF active # Nil /\ L.activeSessionID # L.rootSessionID
        THEN mergeUsageTotals(base, active)
        ELSE base

computeTeamTotals(L, order) ==
    LET totals == aggregateSelfUsage(L.sessions, order)
    IN  IF totals # Nil THEN totals ELSE cloneUsage(L.rootInclusive)

\* Faulty variant of renderTotals: the nil guard is missing.
renderTotals_nilTotals(L, order) ==
    [label |-> "Team Total", totals |-> computeTeamTotals(L, order)]

\* Faulty variant of renderTotals: the labels of sidebar.go.
renderTotals_sessionTotal(L, order) ==
    LET totals == computeTeamTotals(L, order)
    IN  [label |->
            IF L.rootInclusive # Nil
            THEN IF L.activeSessionID # EmptyString
                    /\ L.activeSessionID # L.rootSessionID
                 THEN "Team Total (incl. active child)"
                 ELSE "Team Total"
            ELSE "Session Total",
         totals |-> IF totals = Nil THEN ZeroUsage ELSE totals]

renderTotals(L, order) ==
    LET totals == computeTeamTotals(L, order)
    IN  [label |-> "Team Total",
         totals |-> IF totals = Nil THEN ZeroUsage ELSE totals]

currentSessionUsage(L) ==
    IF L.activeSessionID = EmptyString THEN Nil
    ELSE MapGet(L.sessions, L.activeSessionID)

computeTeamTotals_sidebar(L) ==
    LET base == cloneUsage(L.rootInclusive)
        active == currentSessionUsage(L)
    IN  IF base = Nil THEN cloneUsage(active)
        ELSE IF active # Nil /\ L.activeSessionID # EmptyString
                /\ L.activeSessionID # L.rootSessionID
        THEN mergeUsageTotals(base, active)
        ELSE base

renderTotals_sidebar(L) ==
    LET totals == computeTeamTotals_sidebar(L)
    IN  [label |->
            IF L.rootInclusive # Nil
            THEN IF L.activeSessionID # EmptyString
                    /\ L.activeSessionID # L.rootSessionID
                 THEN "Team Total (incl. active child)"
                 ELSE "Team Total"
            ELSE "Session Total",
         totals |-> IF totals = Nil THEN ZeroUsage ELSE totals]

\* ------------------------------------------------------------ root exclusive
\* Faulty variant of subtractSessions: the root session is not skipped.
RECURSIVE subtractSessions_rootToo(_, _, _, _)
subtractSessions_rootToo(exclusive, sessions, rootSessionID, order) ==
    IF Len(order) = 0 THEN exclusive
    ELSE
    LET usage == sessions[Head(order)]
    IN  subtractSessions_rootToo(
            IF usage = Nil THEN exclusive
            ELSE subtractUsage(exclusive, usage),
            sessions, rootSessionID, Tail(order))

\* Faulty variant of subtractSessions: the loop ends after the first session it
\* subtracts (break in place of continue).
RECURSIVE subtractSessions_stopAfterFirst(_, _, _, _)
subtractSessions_stopAfterFirst(exclusive, sessions, rootSessionID, order) ==
    IF Len(order) = 0 THEN exclusive
    ELSE
    LET id == Head(order)
        usage == sessions[id]
    IN  IF id = rootSessionID \/ usage = Nil
        THEN subtractSessions_stopAfterFirst(exclusive, sessions,
                                             rootSessionID, Tail(order))
        ELSE subtractUsage(exclusive, usage)

\* the loop of computeRootExclusiveUsage: order is the order
\* `range m.usageState.sessions` visits
RECURSIVE subtractSessions(_, _, _, _)
subtractSessions(exclusive, sessions, rootSessionID, order) ==
    IF Len(order) = 0 THEN exclusive
    ELSE
    LET id == Head(order)
        usage == sessions[id]
    IN  subtractSessions(
            IF id = rootSessionID \/ usage = Nil THEN exclusive
            ELSE subtractUsage(exclusive, usage),
            sessions, rootSessionID, Tail(order))

computeRootExclusiveUsage(L, order) ==
    IF L.rootInclusive = Nil THEN Nil
    ELSE subtractSessions(cloneUsage(L.rootInclusive), L.sessions,
                          L.rootSessionID, order)

\* ------------------------------------------------------------ breakdown
\* A block is the text of one row: the name, the token count handed to
\* formatTokenCount, the cost handed to %.2f, and whether ActiveStyle is
\* applied.  EmptyBlock is the empty string.
EmptyBlock == [empty |-> TRUE]

formatSessionBlock(agentName, usage, isActive) ==
    IF usage = Nil THEN EmptyBlock
    ELSE [agentName |-> agentName,
          tokens |-> usage.InputTokens + usage.OutputTokens,
          cost |-> usage.Cost,
          isActive |-> isActive]

\* One element of the slice returned by sessionBreakdownLines: the block,
\* tagged with the session it was composed for and whether it is the root
\* block.
Line(id, isRoot, block) == [session |-> id, root |-> isRoot, block |-> block]

rootSessionBlock(L) ==
    LET stored == MapGet(L.sessions, L.rootSessionID)
        rootUsage == IF stored = Nil THEN L.rootInclusive ELSE stored
    IN  IF rootUsage = Nil THEN EmptyBlock
        ELSE formatSessionBlock(
                IF L.rootAgentName = EmptyString THEN RootLiteral
                ELSE L.rootAgentName,
                cloneUsage(rootUsage),
                L.activeSessionID = L.rootSessionID)

rootSessionBlock_sidebar(L, order) ==
    LET exclusive == computeRootExclusiveUsage(L, order)
    IN  IF exclusive = Nil THEN EmptyBlock
        ELSE formatSessionBlock(
                IF L.rootAgentName = EmptyString THEN RootLiteral
                ELSE L.rootAgentName,
                exclusive,
                L.activeSessionID = L.rootSessionID)

\* Faulty variant of sessionBlocks: the root session is not skipped.
RECURSIVE sessionBlocks_rootToo(_, _)
sessionBlocks_rootToo(L, ids) ==
    IF Len(ids) = 0 THEN <<>>
    ELSE
    LET id == Head(ids)
        stored == MapGet(L.sessions, id)
        usage == IF stored = Nil THEN MapGet(L.inclusive, id) ELSE stored
        agentName ==
            IF MapGetString(L.sessionAgents, id) = EmptyString THEN id
            ELSE MapGetString(L.sessionAgents, id)
        block == formatSessionBlock(agentName, usage, id = L.activeSessionID)
    IN  (IF usage = Nil \/ block = EmptyBlock
         THEN <<>> ELSE <<Line(id, FALSE, block)>>)
        \o sessionBlocks_rootToo(L, Tail(ids))

\* Faulty variant of sessionBlocks: the loop ends at the root session (break
\* in place of continue).
RECURSIVE sessionBlocks_stopAtRoot(_, _)
sessionBlocks_stopAtRoot(L, ids) ==
    IF Len(ids) = 0 THEN <<>>
    ELSE
    LET id == Head(ids)
        stored == MapGet(L.sessions, id)
        usage == IF stored = Nil THEN MapGet(L.inclusive, id) ELSE stored
        agentName ==
            IF MapGetString(L.sessionAgents, id) = EmptyString THEN id
            ELSE MapGetString(L.sessionAgents, id)
        block == formatSessionBlock(agentName, usage, id = L.activeSessionID)
    IN  IF id = L.rootSessionID THEN <<>>
        ELSE (IF usage = Nil \/ block = EmptyBlock
              THEN <<>> ELSE <<Line(id, FALSE, block)>>)
             \o sessionBlocks_stopAtRoot(L, Tail(ids))

\* the per-session loop of sessionBreakdownLines (part_001)
RECURSIVE sessionBlocks(_, _)
sessionBlocks(L, ids) ==
    IF Len(ids) = 0 THEN <<>>
    ELSE
    LET id == Head(ids)
        stored == MapGet(L.sessions, id)
        usage == IF stored = Nil THEN MapGet(L.inclusive, id) ELSE stored
        agentName ==
            IF MapGetString(L.sessionAgents, id) = EmptyString THEN id
            ELSE MapGetString(L.sessionAgents, id)
        block == formatSessionBlock(agentName, usage, id = L.activeSessionID)
    IN  (IF id = L.rootSessionID \/ usage = Nil \/ block = EmptyBlock
         THEN <<>> ELSE <<Line(id, FALSE, block)>>)
        \o sessionBlocks(L, Tail(ids))

\* ids of the inclusive map that the sessions map does not have, in the
\* order `range m.usageState.inclusive` visits them
RECURSIVE unseenIDs(_, _)
unseenIDs(L, inclusiveOrder) ==
    IF Len(inclusiveOrder) = 0 THEN <<>>
    ELSE (IF Head(inclusiveOrder) \in DOMAIN L.sessions THEN <<>>
          ELSE <<Head(inclusiveOrder)>>)
         \o unseenIDs(L, Tail(inclusiveOrder))

sessionBreakdownLines(L, sessionsOrder, inclusiveOrder) ==
    LET ids == sessionsOrder \o unseenIDs(L, inclusiveOrder)
        rootBlock == rootSessionBlock(L)
        rootLines == IF rootBlock # EmptyBlock
                     THEN <<Line(L.rootSessionID, TRUE, rootBlock)>> ELSE <<>>
    IN  IF Len(ids) = 0 THEN rootLines
        ELSE rootLines \o sessionBlocks(L, sortStrings(ids))

\* the per-session loop of sessionBreakdownLines (sidebar.go)
RECURSIVE sessionBlocks_sidebar(_, _)
sessionBlocks_sidebar(L, ids) ==
    IF Len(ids) = 0 THEN <<>>
    ELSE
    LET id == Head(ids)
        usage == MapGet(L.sessions, id)
        agentName ==
            IF MapGetString(L.sessionAgents, id) = EmptyString THEN id
            ELSE MapGetString(L.sessionAgents, id)
        block == formatSessionBlock(agentName, usage, id = L.activeSessionID)
    IN  (IF id = L.rootSessionID \/ usage = Nil \/ block = EmptyBlock
         THEN <<>> ELSE <<Line(id, FALSE, block)>>)
        \o sessionBlocks_sidebar(L, Tail(ids))

\* sessionsOrder is the order of the id-gathering loop, exclusiveOrder the
\* order of the loop inside computeRootExclusiveUsage
sessionBreakdownLines_sidebar(L, sessionsOrder, exclusiveOrder) ==
    IF Cardinality(DOMAIN L.sessions) = 0 THEN <<>>
    ELSE
    LET rootBlock == rootSessionBlock_sidebar(L, exclusiveOrder)
        rootLines == IF rootBlock # EmptyBlock
                     THEN <<Line(L.rootSessionID, TRUE, rootBlock)>> ELSE <<>>
    IN  rootLines \o sessionBlocks_sidebar(L, sortStrings(sessionsOrder))

\* ------------------------------------------------------- writes of a render
\* mergeUsageTotals and subtractUsage assign to the fields of the object
\* their first argument points at.  A pointer is described by the object it
\* points at: the ledger's rootInclusive, or an object that the ledger does
\* not hold.
RootInclusiveRef == [owner |-> "rootInclusive"]

FreshRef == [owner |-> "fresh"]

\* Faulty variant of cloneUsage_target: the pointer handed in is returned.
cloneUsage_target_same(ref) == ref

\* what the pointer returned by cloneUsage(u), u non-nil, points at:
\* `clone := *u; return &clone`
cloneUsage_target(ref) == FreshRef

\* the ledger after `*ref = value`
assignThrough(L, ref, value) ==
    IF ref.owner = "rootInclusive" THEN [L EXCEPT !.rootInclusive = value]
    ELSE L

\* the ledger after computeTeamTotals of sidebar.go: mergeUsageTotals writes
\* to the object base points at, and what it leaves there is the result
computeTeamTotals_sidebar_ledger(L) ==
    IF L.rootInclusive = Nil THEN L
    ELSE assignThrough(L, cloneUsage_target(RootInclusiveRef),
                       computeTeamTotals_sidebar(L))

\* the ledger after computeRootExclusiveUsage: every subtractUsage of the
\* loop writes to the object exclusive points at, and what the last one
\* leaves there is the result
computeRootExclusiveUsage_ledger(L, order) ==
    IF L.rootInclusive = Nil THEN L
    ELSE assignThrough(L, cloneUsage_target(RootInclusiveRef),
                       computeRootExclusiveUsage(L, order))

\* the ledger after tokenUsage of sidebar.go: renderTotals, then
\* sessionBreakdownLines, which reaches computeRootExclusiveUsage through
\* rootSessionBlock unless the sessions map is empty
tokenUsage_ledger(L, order) ==
    LET afterTotals == computeTeamTotals_sidebar_ledger(L)
    IN  IF Cardinality(DOMAIN afterTotals.sessions) = 0 THEN afterTotals
        ELSE computeRootExclusiveUsage_ledger(afterTotals, order)

\* the ledger after tokenUsageDetails of part_001: aggregateSelfUsage
\* accumulates in the local variable total; rootSessionBlock and
\* computeTeamTotals hand out clones and write to nothing
tokenUsageDetails_ledger(L, order) ==
    assignThrough(L, FreshRef, aggregateSelfUsage(L.sessions, order))

\* ------------------------------------------------------------ state machine
Init ==
    /\ usageState = New
    /\ revision \in Revisions
    /\ nEvents = 0
    /\ lastSessionID = EmptyString
    /\ lastAgentName = <<>>

\* the program built from part_001 receives one event
RecordEvent ==
    /\ revision = "part_001"
    /\ nEvents < MaxEvents
    /\ \E event \in Events :
          /\ usageState' = SetTokenUsage(usageState, event)
          /\ lastSessionID' =
                IF event # Nil /\ event.SessionID # EmptyString
                THEN event.SessionID ELSE lastSessionID
          /\ lastAgentName' =
                IF event # Nil /\ event.SessionID # EmptyString
                   /\ event.AgentName # EmptyString
                THEN MapSet(lastAgentName, event.SessionID, event.AgentName)
                ELSE lastAgentName
    /\ nEvents' = nEvents + 1
    /\ UNCHANGED revision

\* the program built from sidebar.go receives one event
RecordEvent_sidebar ==
    /\ revision = "sidebar.go"
    /\ nEvents < MaxEvents
    /\ \E event \in Events :
          /\ usageState' = SetTokenUsage_sidebar(usageState, event)
          /\ lastSessionID' =
                IF event # Nil /\ event.SessionID # EmptyString
                THEN event.SessionID ELSE lastSessionID
          /\ lastAgentName' =
                IF event # Nil /\ event.SessionID # EmptyString
                   /\ event.AgentName # EmptyString
                THEN MapSet(lastAgentName, event.SessionID, event.AgentName)
                ELSE lastAgentName
    /\ nEvents' = nEvents + 1
    /\ UNCHANGED revision

\* the program built from part_001 renders the usage section
View ==
    /\ revision = "part_001"
    /\ \E order \in RangeOrders(usageState.sessions) :
          usageState' = tokenUsageDetails_ledger(usageState, order)
    /\ UNCHANGED <<revision, nEvents, lastSessionID, lastAgentName>>

\* the program built from sidebar.go renders the usage section
View_sidebar ==
    /\ revision = "sidebar.go"
    /\ \E order \in RangeOrders(usageState.sessions) :
          usageState' = tokenUsage_ledger(usageState, order)
    /\ UNCHANGED <<revision, nEvents, lastSessionID, lastAgentName>>

Next == RecordEvent \/ RecordEvent_sidebar \/ View \/ View_sidebar

Spec == Init /\ [][Next]_vars

\* The ingestion alone.  View and View_sidebar leave every variable as it is
\* (C17), so SpecIngest reaches the states of Spec; the claims about what
\* SetTokenUsage does to the ledger are checked under it.
NextIngest == RecordEvent \/ RecordEvent_sidebar

SpecIngest == Init /\ [][NextIngest]_vars

\* ------------------------------------------------------------ properties
\* SetTokenUsage of the revision that is running
Ingest(L, event) ==
    IF revision = "part_001" THEN SetTokenUsage(L, event)
    ELSE SetTokenUsage_sidebar(L, event)

\* The ledger is one to which the run delivers a further event.  The claims
\* about what one event does (C8, C11, C12, C22, C23, C30) are stated for
\* these ledgers and every event that can be delivered to them.
CanIngest == nEvents < MaxEvents

\* computeTeamTotals of the revision that is running
TeamTotals(order) ==
    IF revision = "part_001" THEN computeTeamTotals(usageState, order)
    ELSE computeTeamTotals_sidebar(usageState)

\* sessionBreakdownLines of the revision that is running
BreakdownLines(firstOrder, secondOrder) ==
    IF revision = "part_001"
    THEN sessionBreakdownLines(usageState, firstOrder, secondOrder)
    ELSE sessionBreakdownLines_sidebar(usageState, firstOrder, secondOrder)

\* the orders of the second loop of sessionBreakdownLines: over the inclusive
\* map in part_001, over the sessions map (inside
\* computeRootExclusiveUsage) in sidebar.go
SecondOrders ==
    IF revision = "part_001" THEN RangeOrders(usageState.inclusive)
    ELSE RangeOrders(usageState.sessions)

SessionOrders == RangeOrders(usageState.sessions)

Fields == {"InputTokens", "OutputTokens", "ContextLength", "ContextLimit", "Cost"}

RECURSIVE SumOf(_, _, _)
SumOf(usages, ids, field) ==
    IF ids = {} THEN 0
    ELSE LET id == CHOOSE x \in ids : TRUE
         IN  usages[id][field] + SumOf(usages, ids \ {id}, field)

MaxOf(usages, ids, field) ==
    IF ids = {} THEN 0
    ELSE CHOOSE v \in {usages[id][field] : id \in ids} :
            \A id \in ids : usages[id][field] <= v

\* the stored sessions other than the root session
Children == DOMAIN usageState.sessions \ {usageState.rootSessionID}

ChildSum(field) == SumOf(usageState.sessions, Children, field)

NonNegative(u) == u = Nil \/ \A f \in Fields : u[f] >= 0

\* C1: once rootAgentName is non-empty, no event changes it.
C1_RootAgentNameSticky ==
    [][usageState.rootAgentName # EmptyString
       => usageState'.rootAgentName = usageState.rootAgentName]_vars

\* a session reported under another agent name after the root name was set
C1_Witness ==
    /\ usageState.rootAgentName # EmptyString
    /\ \E id \in DOMAIN usageState.sessionAgents :
          usageState.sessionAgents[id] # usageState.rootAgentName

\* C2: once rootSessionID is non-empty, no event changes it.
C2_RootSessionIDSticky ==
    [][usageState.rootSessionID # EmptyString
       => usageState'.rootSessionID = usageState.rootSessionID]_vars

C4_TeamTotalFallback ==
    /\ \A order \in SessionOrders :
          /\ renderTotals(usageState, order).totals # Nil
          /\ DOMAIN usageState.sessions = {} =>
                renderTotals(usageState, order).totals =
                    IF usageState.rootInclusive # Nil
                    THEN usageState.rootInclusive ELSE ZeroUsage
    /\ renderTotals_sidebar(usageState).totals # Nil
    /\ DOMAIN usageState.sessions = {} =>
          renderTotals_sidebar(usageState).totals =
              IF usageState.rootInclusive # Nil
              THEN usageState.rootInclusive ELSE ZeroUsage

\* the root has reported an inclusive snapshot without a session ID
C4_Witness ==
    /\ revision = "part_001"
    /\ DOMAIN usageState.sessions = {}
    /\ usageState.rootInclusive # Nil

\* C5: without rootInclusive the exclusive usage is nil; with it, for each of
\* InputTokens, OutputTokens and Cost whose inclusive value is at least the
\* children's sum, exclusive + children's sum = inclusive.
C5_ExclusiveInclusiveConsistency ==
    \A order \in SessionOrders :
        LET exclusive == computeRootExclusiveUsage(usageState, order)
        IN  /\ usageState.rootInclusive = Nil => exclusive = Nil
            /\ usageState.rootInclusive # Nil =>
                  /\ exclusive # Nil
                  /\ \A f \in {"InputTokens", "OutputTokens", "Cost"} :
                        usageState.rootInclusive[f] >= ChildSum(f) =>
                            exclusive[f] + ChildSum(f) = usageState.rootInclusive[f]

\* two children whose input fits into the inclusive figure while their cost
\* does not
C5_Witness ==
    /\ usageState.rootInclusive # Nil
    /\ Cardinality(Children) = 2
    /\ ChildSum("InputTokens") > 0
    /\ usageState.rootInclusive.InputTokens > ChildSum("InputTokens")
    /\ usageState.rootInclusive.Cost < ChildSum("Cost")

\* the lines of the running revision's breakdown carry no negative figure
LinesNonNegative(lines) ==
    \A i \in 1 .. Len(lines) :
        lines[i].block.tokens >= 0 /\ lines[i].block.cost >= 0

\* C6: every field of every stored snapshot and of every derived snapshot
\* (team totals, root exclusive usage, the rows' figures) is >= 0.
C6_NonNegativity ==
    /\ NonNegative(usageState.rootInclusive)
    /\ \A id \in DOMAIN usageState.sessions : NonNegative(usageState.sessions[id])
    /\ \A id \in DOMAIN usageState.inclusive : NonNegative(usageState.inclusive[id])
    /\ NonNegative(computeTeamTotals_sidebar(usageState))
    /\ \A order \in SessionOrders :
          /\ NonNegative(computeTeamTotals(usageState, order))
          /\ NonNegative(computeRootExclusiveUsage(usageState, order))
          /\ \A second \in SecondOrders :
                LinesNonNegative(BreakdownLines(order, second))

\* a child has reported more input than the root's inclusive figure holds
C6_Witness ==
    /\ revision = "sidebar.go"
    /\ usageState.rootInclusive # Nil
    /\ usageState.rootInclusive.InputTokens < ChildSum("InputTokens")
    /\ usageState.rootInclusive.Cost < ChildSum("Cost")

Max0(n) == IF n < 0 THEN 0 ELSE n

\* C7: for every order in which the sessions map is ranged, the exclusive
\* InputTokens, OutputTokens and Cost are max(0, inclusive - children's sum).
C7_ClampedSubtractionOrderFree ==
    usageState.rootInclusive # Nil =>
        \A order \in SessionOrders :
            \A f \in {"InputTokens", "OutputTokens", "Cost"} :
                computeRootExclusiveUsage(usageState, order)[f] =
                    Max0(usageState.rootInclusive[f] - ChildSum(f))

\* two children, each within the inclusive figure, together above it
C7_Witness ==
    /\ usageState.rootInclusive # Nil
    /\ Cardinality(Children) >= 2
    /\ \E f \in {"InputTokens", "OutputTokens", "Cost"} :
          /\ \A id \in Children :
                /\ usageState.sessions[id][f] > 0
                /\ usageState.sessions[id][f] <= usageState.rootInclusive[f]
          /\ ChildSum(f) > usageState.rootInclusive[f]

\* C8: delivering an event a second time right after the first changes
\* nothing: for every event, the ledger after two deliveries is the ledger
\* after one.
C8_IdempotentReReport ==
    CanIngest =>
        \A event \in Events :
            LET once == Ingest(usageState, event)
            IN  Ingest(once, event) = once

\* the first event of the run, naming the root and carrying usage, has been
\* delivered twice
C8_Witness ==
    /\ nEvents = 2
    /\ \E event \in Events \ {Nil} :
          /\ event.AgentName # EmptyString
          /\ event.SessionID # EmptyString
          /\ event.SelfUsage # Nil
          /\ event.InclusiveUsage # Nil
          /\ usageState = Ingest(Ingest(New, event), event)
          /\ usageState.rootAgentName = event.AgentName

\* the root line, if any, is the first; the other lines are in strictly
\* ascending byte order of their session IDs
LinesOrdered(lines) ==
    /\ \A i \in 1 .. Len(lines) : lines[i].root => i = 1
    /\ \A i, j \in 1 .. Len(lines) :
          (i < j /\ ~lines[i].root) =>
              StringLess(lines[i].session, lines[j].session)

\* C9: whatever orders the maps are ranged in, sessionBreakdownLines returns
\* the same lines, the root line first and the others in strictly ascending
\* order of session ID.
C9_BreakdownOrderDeterministic ==
    \A first \in SessionOrders : \A second \in SecondOrders :
        /\ LinesOrdered(BreakdownLines(first, second))
        /\ BreakdownLines(first, second) =
              BreakdownLines(CHOOSE o \in SessionOrders : TRUE,
                             CHOOSE o \in SecondOrders : TRUE)

\* a root line followed by two session lines
C9_Witness ==
    \E first \in SessionOrders : \E second \in SecondOrders :
        LET lines == BreakdownLines(first, second)
        IN  /\ Len(lines) = 3
            /\ lines[1].root

\* Scenario 2: the root reports an inclusive snapshot only, then a child
\* under another name and session reports a self snapshot only.
RootInclusiveOnlyEvents ==
    [SessionID : SessionIDs, AgentName : AgentNames, SelfUsage : {Nil},
     InclusiveUsage : UsageSamples, Usage : {Nil}]

ChildSelfOnlyEvents(rootEvent) ==
    [SessionID : SessionIDs \ {rootEvent.SessionID},
     AgentName : AgentNames \ {rootEvent.AgentName},
     SelfUsage : UsageSamples, InclusiveUsage : {Nil}, Usage : {Nil}]

Scenario2(rootEvent, childEvent) ==
    /\ nEvents = 2
    /\ usageState = Ingest(Ingest(New, rootEvent), childEvent)

WithLegacyFilledIn(event) ==
    [event EXCEPT
        !.SelfUsage = IF @ = Nil THEN event.Usage ELSE @,
        !.InclusiveUsage = IF @ = Nil THEN event.Usage ELSE @]

\* the events on which the legacy fallback acts: the legacy usage is there
\* and a snapshot is missing
LegacyEvents ==
    {event \in Events \ {Nil} :
        event.Usage # Nil /\ (event.SelfUsage = Nil \/ event.InclusiveUsage = Nil)}

\* C11: an event that carries the legacy usage U leaves the ledger that the
\* event without legacy usage leaves which has U in whichever of SelfUsage
\* and InclusiveUsage the first one lacks (and in nothing else); if it lacks
\* both, sessions[SessionID] = U and, when its agent name is the root's,
\* rootInclusive = U.
C11_LegacyEquivalence ==
    CanIngest =>
        \A event \in LegacyEvents :
            LET after == SetTokenUsage(usageState, event)
                explicit == [WithLegacyFilledIn(event) EXCEPT !.Usage = Nil]
            IN  /\ after = SetTokenUsage(usageState, explicit)
                /\ (event.SelfUsage = Nil /\ event.InclusiveUsage = Nil) =>
                      /\ event.SessionID # EmptyString =>
                            after.sessions[event.SessionID] = event.Usage
                      /\ event.AgentName = after.rootAgentName =>
                            after.rootInclusive = event.Usage

\* the only event so far is a named legacy event: it is stored as the
\* session's self usage and as the root's inclusive snapshot
C11_Witness ==
    /\ revision = "part_001"
    /\ nEvents = 1
    /\ \E event \in Events \ {Nil} :
          /\ event.SelfUsage = Nil /\ event.InclusiveUsage = Nil
          /\ event.Usage # Nil
          /\ event.SessionID # EmptyString /\ event.AgentName # EmptyString
          /\ usageState = SetTokenUsage(New, event)
          /\ usageState.sessions[event.SessionID] = event.Usage
          /\ usageState.rootInclusive = event.Usage

EmptySessionEvents == {event \in Events \ {Nil} : event.SessionID = EmptyString}

\* the inclusive usage of an event as the running revision reads it
InclusiveOf(event) ==
    IF revision = "part_001" THEN legacyInclusiveUsage(event)
    ELSE event.InclusiveUsage

\* C12: an event with an empty session ID leaves sessions, sessionAgents,
\* activeSessionID and rootSessionID as they were; if it carries inclusive
\* usage and its agent name is the root agent name, rootInclusive becomes
\* that usage.
C12_EmptySessionIDEvent ==
    CanIngest =>
        \A event \in EmptySessionEvents :
            LET after == Ingest(usageState, event)
            IN  /\ after.sessions = usageState.sessions
                /\ after.sessionAgents = usageState.sessionAgents
                /\ after.activeSessionID = usageState.activeSessionID
                /\ after.rootSessionID = usageState.rootSessionID
                /\ (event.AgentName = after.rootAgentName
                        /\ InclusiveOf(event) # Nil) =>
                      after.rootInclusive = InclusiveOf(event)

\* the root has reported with a session ID and then, with another inclusive
\* snapshot, without one
C12_Witness ==
    /\ nEvents = 2
    /\ usageState.activeSessionID # EmptyString
    /\ usageState.rootSessionID # EmptyString
    /\ \E first \in Events \ {Nil} : \E event \in EmptySessionEvents :
          /\ usageState = Ingest(Ingest(New, first), event)
          /\ event.AgentName = usageState.rootAgentName
          /\ InclusiveOf(event) # Nil
          /\ usageState.rootInclusive = InclusiveOf(event)
          /\ usageState.rootInclusive # Ingest(New, first).rootInclusive
          /\ usageState.sessions = Ingest(New, first).sessions
          /\ DOMAIN usageState.sessions # {}

\* C13: activeSessionID is the session ID of the most recent event that
\* carried one, and is empty when there has been no such event.
C13_ActiveIsLastReporter == usageState.activeSessionID = lastSessionID

\* the last reporter carried neither usage nor an agent name, after another
\* session had reported usage
C13_Witness ==
    /\ lastSessionID # EmptyString
    /\ lastSessionID \notin DOMAIN usageState.sessions
    /\ lastSessionID \notin DOMAIN usageState.inclusive
    /\ lastSessionID \notin DOMAIN usageState.sessionAgents
    /\ DOMAIN usageState.sessions # {}

\* C14: every breakdown row of a session carries the agent name most
\* recently reported for that session ID, or the session ID itself if no
\* event of the session carried an agent name.
C14_RowLabelFallback ==
    \A first \in SessionOrders : \A second \in SecondOrders :
        LET lines == BreakdownLines(first, second)
        IN  \A i \in 1 .. Len(lines) :
                lines[i].session # EmptyString =>
                    lines[i].block.agentName =
                        IF lines[i].session \in DOMAIN lastAgentName
                        THEN lastAgentName[lines[i].session]
                        ELSE lines[i].session

\* C15: the root row is labelled rootAgentName if that is non-empty,
\* otherwise rootSessionID if that is non-empty, otherwise "Root".
C15_RootRowLabel ==
    \A first \in SessionOrders : \A second \in SecondOrders :
        LET lines == BreakdownLines(first, second)
        IN  \A i \in 1 .. Len(lines) :
                lines[i].root =>
                    lines[i].block.agentName =
                        IF usageState.rootAgentName # EmptyString
                        THEN usageState.rootAgentName
                        ELSE IF usageState.rootSessionID # EmptyString
                        THEN usageState.rootSessionID
                        ELSE RootLiteral

\* Scenario 1: one event with a session ID, an agent name, and the same
\* snapshot as self and as inclusive usage.
Scenario1Events ==
    {event \in Events \ {Nil} :
        /\ event.SessionID # EmptyString
        /\ event.AgentName # EmptyString
        /\ event.SelfUsage # Nil
        /\ event.InclusiveUsage = event.SelfUsage}

\* no session has two lines, and at most one line is the root line
RenderedOnce(lines) ==
    \A i, j \in 1 .. Len(lines) :
        i # j => /\ lines[i].session # lines[j].session
                 /\ ~(lines[i].root /\ lines[j].root)

\* C16: after scenario 1 the team total and the root exclusive usage are the
\* event's usage and the breakdown is one row, with the event's agent name,
\* marked active; in every state no session (the root session included) has
\* two rows.
C16_SingleRootEvent ==
    /\ nEvents = 1 =>
          \A event \in Scenario1Events :
              usageState = Ingest(New, event) =>
                  \A first \in SessionOrders : \A second \in SecondOrders :
                      /\ TeamTotals(first) = event.SelfUsage
                      /\ computeRootExclusiveUsage(usageState, first) = event.SelfUsage
                      /\ BreakdownLines(first, second) =
                            << Line(event.SessionID, TRUE,
                                    formatSessionBlock(event.AgentName,
                                                       event.SelfUsage, TRUE)) >>
    /\ \A first \in SessionOrders : \A second \in SecondOrders :
          RenderedOnce(BreakdownLines(first, second))

\* scenario 1 has run and the one row is the root row
C16_Witness ==
    /\ nEvents = 1
    /\ \E event \in Scenario1Events :
          /\ usageState = Ingest(New, event)
          /\ usageState.rootSessionID = event.SessionID
          /\ event.SessionID \in DOMAIN usageState.sessions
          /\ \E first \in SessionOrders : \E second \in SecondOrders :
                /\ Len(BreakdownLines(first, second)) = 1
                /\ BreakdownLines(first, second)[1].root

\* C17: computeTeamTotals, computeRootExclusiveUsage, and a whole render
\* (renderTotals followed by sessionBreakdownLines) leave the ledger as it
\* was, in every reachable state and for every order of the map ranges.
C17_ReadOnlyAggregation ==
    /\ computeTeamTotals_sidebar_ledger(usageState) = usageState
    /\ \A order \in SessionOrders :
          /\ computeRootExclusiveUsage_ledger(usageState, order) = usageState
          /\ tokenUsage_ledger(usageState, order) = usageState
          /\ tokenUsageDetails_ledger(usageState, order) = usageState

\* a render in which the merge and the subtraction both change their
\* accumulator
C17_Witness ==
    /\ revision = "sidebar.go"
    /\ usageState.rootInclusive # Nil
    /\ computeTeamTotals_sidebar(usageState) # usageState.rootInclusive
    /\ \E order \in SessionOrders :
          computeRootExclusiveUsage(usageState, order) # usageState.rootInclusive

\* the ContextLimit of the team total that the running revision reports for
\* ledger L (the limit does not depend on the range order)
TeamLimit(L) ==
    IF revision = "part_001"
    THEN renderTotals(L, CHOOSE order \in RangeOrders(L.sessions) : TRUE)
            .totals.ContextLimit
    ELSE renderTotals_sidebar(L).totals.ContextLimit

\* C18: no step lowers the ContextLimit of the team total.
C18_ContextLimitNeverRegresses ==
    [][TeamLimit(usageState') >= TeamLimit(usageState)]_vars

\* the events of session ID id that carry no legacy usage
ExplicitEventsOf(id) ==
    {event \in Events \ {Nil} : event.SessionID = id /\ event.Usage = Nil}

C20_ChildBeforeParent ==
    nEvents = 2 =>
        \A rootEvent \in RootInclusiveOnlyEvents :
            \A childEvent \in ChildSelfOnlyEvents(rootEvent) :
                usageState = Ingest(Ingest(New, childEvent), rootEvent) =>
                    LET rootFirst == Ingest(Ingest(New, rootEvent), childEvent)
                    IN  /\ usageState.rootAgentName = rootFirst.rootAgentName
                        /\ usageState.rootSessionID = rootFirst.rootSessionID
                        /\ usageState.rootInclusive = rootFirst.rootInclusive
                        /\ \A order \in SessionOrders :
                              computeRootExclusiveUsage(usageState, order) =
                                  computeRootExclusiveUsage(rootFirst, order)

CarriedUsage(event) ==
    IF event.SelfUsage # Nil THEN event.SelfUsage
    ELSE IF event.Usage # Nil THEN event.Usage
    ELSE event.InclusiveUsage

C23_RootStateOnlyByRootEvents ==
    CanIngest =>
        \A event \in Events \ {Nil} :
            LET after == Ingest(usageState, event)
            IN  (event.AgentName # after.rootAgentName
                    \/ InclusiveOf(event) = Nil) =>
                    /\ after.rootInclusive = usageState.rootInclusive
                    /\ after.rootSessionID = usageState.rootSessionID

\* after the root, another agent has reported inclusive usage of its own
\* under another session
C23_Witness ==
    /\ nEvents = 2
    /\ usageState.rootInclusive # Nil
    /\ usageState.rootSessionID # EmptyString
    /\ \E first, second \in Events \ {Nil} :
          /\ second.AgentName # EmptyString
          /\ second.AgentName # first.AgentName
          /\ second.SessionID # EmptyString
          /\ second.SessionID # first.SessionID
          /\ InclusiveOf(second) # Nil
          /\ InclusiveOf(second) # InclusiveOf(first)
          /\ usageState = Ingest(Ingest(New, first), second)
          /\ usageState.rootAgentName = first.AgentName
          /\ usageState.rootInclusive = InclusiveOf(first)
          /\ usageState.rootSessionID = first.SessionID

\* C24: with rootInclusive present the first breakdown line is the root line
\* and its figures are those of computeRootExclusiveUsage; with neither
\* rootInclusive nor a stored snapshot of the root session there is no root
\* line.
C24_RootRowContent ==
    \A first \in SessionOrders : \A second \in SecondOrders :
        LET lines == BreakdownLines(first, second)
            exclusive == computeRootExclusiveUsage(usageState, first)
        IN  /\ usageState.rootInclusive # Nil =>
                  /\ Len(lines) >= 1
                  /\ lines[1].root
                  /\ lines[1].block.tokens =
                        exclusive.InputTokens + exclusive.OutputTokens
                  /\ lines[1].block.cost = exclusive.Cost
            /\ (usageState.rootInclusive = Nil
                  /\ MapGet(usageState.sessions, usageState.rootSessionID) = Nil) =>
                  \A i \in 1 .. Len(lines) : ~lines[i].root

\* C25 as stated: wherever rootInclusive exists, the ContextLength of
\* computeRootExclusiveUsage is its InputTokens + OutputTokens.
C25_ExclusiveContextLength ==
    \A order \in SessionOrders :
        LET exclusive == computeRootExclusiveUsage(usageState, order)
        IN  exclusive # Nil =>
                exclusive.ContextLength =
                    exclusive.InputTokens + exclusive.OutputTokens

\* C25: subtractUsage returns ContextLength = InputTokens + OutputTokens of
\* its result; so the ContextLength of computeRootExclusiveUsage is its
\* InputTokens + OutputTokens once a session other than the root session is
\* stored, and with no such session computeRootExclusiveUsage is rootInclusive
\* as reported, ContextLength included.
C25_ExclusiveContextLengthAfterSubtraction ==
    /\ \A base, delta \in UsageSamples :
          subtractUsage(base, delta).ContextLength =
              subtractUsage(base, delta).InputTokens
              + subtractUsage(base, delta).OutputTokens
    /\ \A order \in SessionOrders :
          LET exclusive == computeRootExclusiveUsage(usageState, order)
          IN  exclusive # Nil =>
                  IF Children # {}
                  THEN exclusive.ContextLength =
                           exclusive.InputTokens + exclusive.OutputTokens
                  ELSE exclusive = usageState.rootInclusive

\* the root reported a ContextLength that is not InputTokens + OutputTokens,
\* a child is stored, and the subtraction has replaced the reported
\* ContextLength
C25_Witness ==
    /\ usageState.rootInclusive # Nil
    /\ usageState.rootInclusive.ContextLength #
          usageState.rootInclusive.InputTokens
          + usageState.rootInclusive.OutputTokens
    /\ Children # {}
    /\ \E order \in SessionOrders :
          computeRootExclusiveUsage(usageState, order).ContextLength #
              usageState.rootInclusive.ContextLength

\* C26: subtractUsage returns the ContextLimit of its first argument, and the
\* ContextLimit of computeRootExclusiveUsage is that of rootInclusive whatever
\* the ContextLimit of the stored sessions.
C26_SubtractionKeepsContextLimit ==
    /\ \A base, delta \in UsageSamples :
          subtractUsage(base, delta).ContextLimit = base.ContextLimit
    /\ \A order \in SessionOrders :
          LET exclusive == computeRootExclusiveUsage(usageState, order)
          IN  exclusive # Nil =>
                  exclusive.ContextLimit = usageState.rootInclusive.ContextLimit

\* a child with another ContextLimit than the root's has been subtracted
C26_Witness ==
    /\ usageState.rootInclusive # Nil
    /\ \E id \in Children :
          usageState.sessions[id].ContextLimit #
              usageState.rootInclusive.ContextLimit
    /\ \E order \in SessionOrders :
          computeRootExclusiveUsage(usageState, order) # usageState.rootInclusive

\* the indices of the per-session lines for session id
LinesOf(lines, id) ==
    { i \in 1 .. Len(lines) : ~lines[i].root /\ lines[i].session = id }

\* C27: sessionBreakdownLines returns exactly one per-session line for every
\* stored session other than rootSessionID, at most one root line, no
\* per-session line for a session without stored usage (one that is only
\* named or only active), and a root line whenever the root session is stored.
C27_RowsMatchStoredSessions ==
    \A first \in SessionOrders : \A second \in SecondOrders :
        LET lines == BreakdownLines(first, second)
        IN  /\ \A id \in Children : Cardinality(LinesOf(lines, id)) = 1
            /\ Cardinality({ i \in 1 .. Len(lines) : lines[i].root }) <= 1
            /\ \A i \in 1 .. Len(lines) :
                  ~lines[i].root => lines[i].session \in Children
            /\ usageState.rootSessionID \in DOMAIN usageState.sessions =>
                  \E i \in 1 .. Len(lines) : lines[i].root

\* a root line and a child's line are shown while another session is known
\* by name, or as the active session, without stored usage
C27_Witness ==
    /\ usageState.rootInclusive # Nil
    /\ Children # {}
    /\ \A first \in SessionOrders : \A second \in SecondOrders :
          Len(BreakdownLines(first, second)) = 1 + Cardinality(Children)
    /\ \/ DOMAIN usageState.sessionAgents \ DOMAIN usageState.sessions # {}
       \/ /\ usageState.activeSessionID # EmptyString
          /\ usageState.activeSessionID \notin DOMAIN usageState.sessions

\* the indices of the lines flagged as the active session
Flagged(lines) == { i \in 1 .. Len(lines) : lines[i].block.isActive }

\* C28: at most one line is flagged active; a per-session line is flagged iff
\* its session ID is activeSessionID, the root line iff activeSessionID is
\* rootSessionID; with an empty activeSessionID no line is flagged.
C28_ActiveFlag ==
    \A first \in SessionOrders : \A second \in SecondOrders :
        LET lines == BreakdownLines(first, second)
        IN  /\ Cardinality(Flagged(lines)) <= 1
            /\ \A i \in 1 .. Len(lines) :
                  lines[i].block.isActive <=>
                      IF lines[i].root
                      THEN usageState.activeSessionID = usageState.rootSessionID
                      ELSE lines[i].session = usageState.activeSessionID
            /\ usageState.activeSessionID = EmptyString => Flagged(lines) = {}

\* C29: a non-empty rootSessionID implies that rootInclusive is present; in
\* part_001, where the inclusive usage is stored as a session's snapshot when
\* the event has no self usage, it also implies that sessions[rootSessionID]
\* is present and that activeSessionID is non-empty.
C29_RootBookkeeping ==
    usageState.rootSessionID # EmptyString =>
        /\ usageState.rootInclusive # Nil
        /\ revision = "part_001" =>
              /\ usageState.rootSessionID \in DOMAIN usageState.sessions
              /\ usageState.activeSessionID # EmptyString

\* the root session is known and another session has become the active one
C29_Witness ==
    /\ revision = "part_001"
    /\ usageState.rootSessionID # EmptyString
    /\ usageState.activeSessionID # usageState.rootSessionID
    /\ usageState.rootSessionID \in DOMAIN usageState.sessions

\* the events without an agent name that carry inclusive usage, explicitly or
\* through the legacy field
AnonymousRootEvents ==
    { event \in Events \ {Nil} :
        event.AgentName = EmptyString /\ InclusiveOf(event) # Nil }

\* C30: while rootAgentName is empty, an event without an agent name that
\* carries inclusive usage sets rootInclusive to that usage and, if it has a
\* session ID, rootSessionID to that ID; once rootAgentName is set, such an
\* event changes none of rootInclusive, rootSessionID and rootAgentName.
C30_AnonymousEventsActAsRoot ==
    CanIngest =>
        \A event \in AnonymousRootEvents :
            LET after == Ingest(usageState, event)
            IN  IF usageState.rootAgentName = EmptyString
                THEN /\ after.rootInclusive = InclusiveOf(event)
                     /\ after.rootSessionID =
                           IF event.SessionID # EmptyString THEN event.SessionID
                           ELSE usageState.rootSessionID
                     /\ after.rootAgentName = EmptyString
                ELSE /\ after.rootInclusive = usageState.rootInclusive
                     /\ after.rootSessionID = usageState.rootSessionID
                     /\ after.rootAgentName = usageState.rootAgentName

\* rootInclusive and rootSessionID were set by an event without an agent name,
\* and no agent name has been seen yet
C30_Witness ==
    /\ usageState.rootAgentName = EmptyString
    /\ usageState.rootInclusive # Nil
    /\ usageState.rootSessionID # EmptyString
    /\ lastAgentName = EmptyString
    /\ lastSessionID = usageState.rootSessionID




====
